---- MODULE Spec2Model ----
(***************************************************************************)
(* Model of src/src/image_colorization.py: ECCVImage (preprocessing) and   *)
(* LoriaImageColorization (deep-image-prior optimisation with a scheduled  *)
(* re-projection of the fidelity target onto the chrominance palette).     *)
(*                                                                         *)
(* Tensors are functions.  A 3-channel image is [channel -> [pixel ->      *)
(* value]] with channels 0..2 (L, a, b); a distribution is [bin -> [pixel  *)
(* -> weight]].  Images are one-dimensional strips: N64 pixels at the low  *)
(* resolution ("64") and Factor * N64 pixels at the high one ("256").      *)
(*                                                                         *)
(* Reals are exact fixed-point integers.  A value v in the normalised      *)
(* range [0,1] (target_dip, out, 0.5*(COEFS+1), luminance/100) and a       *)
(* luminance in [0,100] are both stored as v * Q; a palette coefficient c  *)
(* in [-1,1] is stored as c * Half.  Floating-point rounding is not        *)
(* modelled.                                                               *)
(***************************************************************************)
EXTENDS Integers, Sequences, FiniteSets, TLC

VARIABLES
    pc,                \* position: see the three entry points below
    black_image,       \* constructor argument (raw grey levels, high res.)
    luminance_256,     \* ECCVImage.luminance_256
    luminance_64,      \* ECCVImage.luminance_64
    proba_distrib,     \* ECCVImage.proba_distrib
    lab_mean_64,       \* ECCVImage.lab_mean_64
    output_upsampled,  \* ECCVImage.output_upsampled
    COEFS,             \* the module-level palette tensor COEFS
    dip_input,         \* LoriaImageColorization.dip_input (fixed noise)
    params,            \* parameters of LoriaImageColorization.dip_net
    opt_t,             \* state of the Adam optimizer: number of steps taken
    out,               \* LoriaImageColorization.out
    target_dip,        \* LoriaImageColorization.target_dip
    num_iter,          \* argument of optimize
    j,                 \* number of iterations of the loop consumed so far
    grads,             \* history: number of gradient iterations executed
    reprojs,           \* history: indices of the re-projection iterations
    last,              \* history: kind of the last iteration executed
    image,             \* argument of a direct call of projection_chrom
    proj1,             \* result of projection_chrom(image)
    proj2              \* result of projection_chrom(proj1)

vars == <<pc, black_image, luminance_256, luminance_64, proba_distrib,
          lab_mean_64, output_upsampled, COEFS, dip_input, params, opt_t,
          out, target_dip, num_iter, j, grads, reprojs, last, image, proj1,
          proj2>>

(***************************************************************************)
(* Bounds of the model.                                                    *)
(***************************************************************************)
N64 == 2          \* pixels of a low-resolution strip
MaxGrid == 4      \* chrominance inputs of projection_chrom: k * Q/4, k <= MaxGrid
MaxWeight == 2    \* largest weight of one bin in a pixel's distribution
MaxParam == 1     \* parameter vectors of the prior network: 0..MaxParam
MaxNoise == 0     \* noise inputs of the prior network: 0..MaxNoise
MaxPeriods == 2   \* budgets num_iter up to ReprojStart + MaxPeriods * ReprojPeriod + 1

(***************************************************************************)
(* Program constants.                                                      *)
(***************************************************************************)
Factor == 4            \* 256 / 64, and Downsampler(factor=4)
GrayMax == 255         \* black_image * (100 / 255)
LumMax == 100          \* luminance range [0, 100]
ReprojStart == 800     \* j < 800
ReprojPeriod == 200    \* j % 200 != 0
AbNorm == 110          \* BaseColor.unnormalize_ab

Q == Factor * GrayMax  \* fixed-point scale of normalised values
Half == Q \div 2       \* fixed-point scale of the palette coefficients

Pix64 == 1..N64
Pix256 == 1..(Factor * N64)
Channels == 0..2
Block(x) == ((x - 1) * Factor + 1)..(x * Factor)
Empty == <<>>          \* torch.zeros(0), and tensors not yet assigned
Unassigned == 0 - 1    \* integer-valued fields not yet assigned

RECURSIVE SumOver(_, _)
SumOver(f, S) ==
    IF S = {} THEN 0
    ELSE LET x == CHOOSE y \in S : TRUE IN f[x] + SumOver(f, S \ {x})

(***************************************************************************)
(* The palette: src.coef_chrominance.COEFS, 313 ordered (a,b) pairs in the *)
(* repository, four distinct pairs here.                                   *)
(***************************************************************************)
PaletteSeq ==
    << <<-255, 255>>, <<0, 0>>, <<255, -255>>, <<255, 255>> >>
NumBins == Len(PaletteSeq)
Bins == 0..(NumBins - 1)
Palette == [i \in Bins |-> PaletteSeq[i + 1]]

(***************************************************************************)
(* External collaborators, modelled from their interface.                  *)
(***************************************************************************)
\* torch.clip(x, lo, hi)
Clip(v, lo, hi) == IF v < lo THEN lo ELSE IF v > hi THEN hi ELSE v

\* torch.argmin / torch.argmax along the bin axis: index of the first
\* minimal (maximal) value.
ArgMin(f) ==
    CHOOSE i \in DOMAIN f :
        /\ \A k \in DOMAIN f : f[i] <= f[k]
        /\ \A k \in DOMAIN f : k < i => f[k] > f[i]
ArgMax(f) ==
    CHOOSE i \in DOMAIN f :
        /\ \A k \in DOMAIN f : f[i] >= f[k]
        /\ \A k \in DOMAIN f : k < i => f[k] < f[i]

\* src.utils.resize_image(image, size=(256, 256)) of an image that already
\* has the high resolution, and resize_image(image, size=(64, 64)): the
\* mean of each block of Factor pixels.
Resize256(img) == [x \in Pix256 |-> img[x]]
Resize64(img) == [x \in Pix64 |-> SumOver(img, Block(x)) \div Factor]

\* src.utils.upsample: every low-resolution pixel is repeated Factor times.
upsample(lab) ==
    [c \in Channels |-> [x \in Pix256 |-> lab[c][((x - 1) \div Factor) + 1]]]

\* src.dip.downsampler.Downsampler(factor=4): a fixed kernel over each
\* block of Factor pixels, here the (floored) mean.
downsampler(o) ==
    [c \in Channels |->
        [x \in Pix64 |-> SumOver(o[c], Block(x)) \div Factor]]

\* src.dip.get_net(...): the prior network, a deterministic function of
\* its parameters p and its input z; its values vary from block to block,
\* with a small texture inside each block.
DipNet(p, z) ==
    [c \in Channels |->
        [x \in Pix256 |->
            ((((p + 1) * 331 + z * 197 + c * 89
                 + (((x - 1) \div Factor) + 1) * 53) * 7) % (Q + 1))
            + ((x - 1) % Factor) * 3]]

(***************************************************************************)
(* ECCVImage.__init__ and ECCVImage.process_eccv.                          *)
(***************************************************************************)
\* black_image.to(DEV) * (100 / 255)
Normalize(img) == [x \in DOMAIN img |-> (img[x] * LumMax * Q) \div GrayMax]

Luminance256(img) ==
    LET r == Resize256(Normalize(img))
    IN  [x \in Pix256 |-> Clip(r[x], 0, LumMax * Q)]

Luminance64(img) ==
    LET r == Resize64(Normalize(img))
    IN  [x \in Pix64 |-> Clip(r[x], 0, LumMax * Q)]

\* einsum("abcd,bn->nbcd", proba_distrib, COEFS), unnormalize_ab and the
\* sum over the bins: the mean chrominance, channel n in 1..2.
ChromMeanUnnorm(dist, coefs) ==
    [n \in 1..2 |->
        [x \in Pix64 |->
            SumOver([b \in Bins |-> dist[b][x] * coefs[b][n] * AbNorm], Bins)]]

\* torch.cat((luminance_64, chrom_mean_unnorm), dim=1)
LabMean64(l64, dist, coefs) ==
    LET m == ChromMeanUnnorm(dist, coefs)
    IN  [c \in Channels |-> IF c = 0 THEN l64 ELSE m[c]]

\* upsample(lab_mean_64); output_upsampled[:, [0], :] = luminance_256
OutputUpsampledNoOverwrite(lab, l256) == upsample(lab)
OutputUpsampled(lab, l256) == [upsample(lab) EXCEPT ![0] = l256]

(***************************************************************************)
(* LoriaImageColorization.get_initialized_image and projection_chrom.      *)
(***************************************************************************)
\* luminance / 100
Div100(v) == v \div LumMax

\* coefs_to_128 = 0.5 * (COEFS + 1)
CoefsTo128(coefs) ==
    [i \in DOMAIN coefs |-> <<coefs[i][1] + Half, coefs[i][2] + Half>>]

\* ind_max = torch.argmax(self.proba_distrib, axis=1)
IndMaxLast(x) ==
    LET f == [b \in Bins |-> proba_distrib[b][x]]
    IN  CHOOSE i \in Bins : /\ \A k \in Bins : f[i] >= f[k]
                            /\ \A k \in Bins : k > i => f[k] < f[i]
IndMax(x) == ArgMax([b \in Bins |-> proba_distrib[b][x]])

get_initialized_image ==
    LET c128 == CoefsTo128(COEFS)
    IN  [c \in Channels |->
            [x \in Pix64 |->
                IF c = 0 THEN Div100(luminance_64[x])
                ELSE c128[IndMax(x)][c]]]

\* torch.pow(coefs_a - image[0, 1, :], 2) + torch.pow(coefs_b - image[0, 2, :], 2)
Dist2Raw(im, x) ==
    [b \in Bins |->
        (COEFS[b][1] - im[1][x]) * (COEFS[b][1] - im[1][x])
      + (COEFS[b][2] - im[2][x]) * (COEFS[b][2] - im[2][x])]
Dist2(im, x) ==
    LET c128 == CoefsTo128(COEFS)
    IN  [b \in Bins |->
            (c128[b][1] - im[1][x]) * (c128[b][1] - im[1][x])
          + (c128[b][2] - im[2][x]) * (c128[b][2] - im[2][x])]

\* ind_min = torch.argmin(..., dim=1)
IndMinLast(im, x) ==
    LET f == Dist2(im, x)
    IN  CHOOSE i \in Bins : /\ \A k \in Bins : f[i] <= f[k]
                            /\ \A k \in Bins : k > i => f[k] > f[i]
IndMin(im, x) == ArgMin(Dist2(im, x))

projection_chrom_swapped(im) ==
    LET c128 == CoefsTo128(COEFS)
    IN  [c \in Channels |->
            [x \in Pix64 |->
                IF c = 0 THEN Div100(luminance_64[x])
                ELSE IF c = 1 THEN c128[IndMin(im, x)][1]
                ELSE c128[IndMin(im, N64 + 1 - x)][2]]]
projection_chrom(im) ==
    LET c128 == CoefsTo128(COEFS)
    IN  [c \in Channels |->
            [x \in Pix64 |->
                IF c = 0 THEN Div100(luminance_64[x])
                ELSE c128[IndMin(im, x)][c]]]

(***************************************************************************)
(* LoriaImageColorization.optimize: the schedule and the two kinds of      *)
(* iteration.                                                              *)
(***************************************************************************)
\* if j < 800 or (j % 200 != 0)
IsGradientIterLate(jj) == jj < ReprojStart + ReprojPeriod \/ jj % ReprojPeriod # 0
IsGradientIter(jj) == jj < ReprojStart \/ jj % ReprojPeriod # 0

\* for j in tqdm.tqdm(range(num_iter)): the index jj is in the range, and
\* the index that follows it
InRangeInclusive(jj, n) == jj <= n
InRange(jj, n) == jj < n
NextIndexStuck(jj) == IF IsGradientIter(jj) THEN jj + 1 ELSE jj
NextIndex(jj) == jj + 1

\* new_target = self.projection_chrom(self.downsampler(self.out))
\* new_target[0, 0, :] = self.luminance_64.clone().detach() / 100
NewTargetKeepL(o) ==
    LET d == downsampler(o)
    IN  [projection_chrom(d) EXCEPT ![0] = d[0]]
NewTarget(o) ==
    [projection_chrom(downsampler(o)) EXCEPT
        ![0] = [x \in Pix64 |-> Div100(luminance_64[x])]]

(***************************************************************************)
(* Inputs.                                                                 *)
(***************************************************************************)
GraySeq == <<0, 255, 300>>
GrayImage(a, b) ==
    [x \in Pix256 |-> GraySeq[((a * x + b) % Len(GraySeq)) + 1]]
GrayImages ==
    {GrayImage(a, b) : a \in 0..(Len(GraySeq) - 1), b \in 0..(Len(GraySeq) - 1)}

\* The distributions of one pixel: integer weights that sum to ProbTotal
\* (a weight w stands for the probability w / ProbTotal).
ProbTotal == NumBins
PixelDists ==
    {d \in [Bins -> 0..MaxWeight] : SumOver(d, Bins) = ProbTotal}
Dists ==
    {[b \in Bins |-> [x \in Pix64 |-> f[x][b]]] : f \in [Pix64 -> PixelDists]}
Uniform == [b \in Bins |-> [x \in Pix64 |-> 1]]
Peaked ==
    [b \in Bins |->
        [x \in Pix64 |->
            IF b = x % NumBins THEN 2
            ELSE IF b = (x + 1) % NumBins THEN 0 ELSE 1]]

\* The objects on which optimize is run.
RunInputs == {<<GrayImage(0, 1), Uniform>>, <<GrayImage(1, 0), Peaked>>}
Params == 0..MaxParam
DipInputs == 0..MaxNoise
\* The budgets num_iter: 0, 1, the first budget with a re-projection, and
\* each later multiple of the period with the budget that follows it (1000
\* and 1201 among them).
NumIters ==
    {0, 1, ReprojStart + 1} \cup
    {ReprojStart + k * ReprojPeriod + d : k \in 1..MaxPeriods, d \in {0, 1}}

\* The arguments of a direct call of projection_chrom.
ChromVals == {k * (Q \div 4) : k \in 0..MaxGrid}
ProjImages ==
    {[c \in Channels |-> IF c = 0 THEN [x \in Pix64 |-> l] ELSE ab[c]] :
        l \in {0, Q}, ab \in [1..2 -> [Pix64 -> ChromVals]]}

(***************************************************************************)
(* Entry point 1: construction of an object from an input image.           *)
(*   pc: "input" -> "eccv" -> "built"                                      *)
(***************************************************************************)
NoLoria ==
    /\ dip_input = Unassigned /\ params = Unassigned /\ opt_t = Unassigned
    /\ out = Empty /\ target_dip = Empty
NoRun ==
    /\ num_iter = 0 /\ j = 0 /\ grads = 0 /\ reprojs = {} /\ last = "none"
NoProj == image = Empty /\ proj1 = Empty /\ proj2 = Empty

InitInput ==
    /\ pc = "input"
    /\ black_image \in GrayImages
    /\ luminance_256 = Empty /\ luminance_64 = Empty
    /\ proba_distrib = Empty /\ lab_mean_64 = Empty
    /\ output_upsampled = Empty
    /\ COEFS = Palette
    /\ NoLoria /\ NoRun /\ NoProj

\* ECCVImage.__init__, process_eccv included; dist is the output of the
\* frozen predictor COLORIZER.
ECCVImage_init ==
    /\ pc = "input"
    /\ pc' = "eccv"
    /\ luminance_256' = Luminance256(black_image)
    /\ luminance_64' = Luminance64(black_image)
    /\ \E dist \in Dists : proba_distrib' = dist
    /\ lab_mean_64' = LabMean64(luminance_64', proba_distrib', COEFS)
    /\ output_upsampled' = OutputUpsampled(lab_mean_64', luminance_256')
    /\ UNCHANGED <<black_image, COEFS, dip_input, params, opt_t, out,
                   target_dip, num_iter, j, grads, reprojs, last, image,
                   proj1, proj2>>

\* The rest of LoriaImageColorization.__init__.
Loria_init ==
    /\ pc = "eccv"
    /\ pc' = "built"
    /\ \E z \in DipInputs : dip_input' = z
    /\ params' = 0
    /\ opt_t' = Unassigned
    /\ target_dip' = get_initialized_image
    /\ out' = Empty
    /\ UNCHANGED <<black_image, luminance_256, luminance_64, proba_distrib,
                   lab_mean_64, output_upsampled, COEFS, num_iter, j, grads,
                   reprojs, last, image, proj1, proj2>>

NextInit == ECCVImage_init \/ Loria_init

SpecInit == InitInput /\ [][NextInit]_vars

(***************************************************************************)
(* Entry point 2: a direct call of projection_chrom, and a second call on  *)
(* its result.   pc: "arg" -> "proj1" -> "proj2"                           *)
(***************************************************************************)
InitProj ==
    /\ pc = "arg"
    /\ \E in \in RunInputs :
        /\ black_image = in[1]
        /\ luminance_256 = Luminance256(in[1])
        /\ luminance_64 = Luminance64(in[1])
        /\ proba_distrib = in[2]
    /\ COEFS = Palette
    /\ lab_mean_64 = LabMean64(luminance_64, proba_distrib, COEFS)
    /\ output_upsampled = OutputUpsampled(lab_mean_64, luminance_256)
    /\ NoLoria /\ NoRun
    /\ image \in ProjImages
    /\ proj1 = Empty /\ proj2 = Empty

ProjectOnce ==
    /\ pc = "arg"
    /\ pc' = "proj1"
    /\ proj1' = projection_chrom(image)
    /\ UNCHANGED <<black_image, luminance_256, luminance_64, proba_distrib,
                   lab_mean_64, output_upsampled, COEFS, dip_input, params,
                   opt_t, out, target_dip, num_iter, j, grads, reprojs, last,
                   image, proj2>>

ProjectTwice ==
    /\ pc = "proj1"
    /\ pc' = "proj2"
    /\ proj2' = projection_chrom(proj1)
    /\ UNCHANGED <<black_image, luminance_256, luminance_64, proba_distrib,
                   lab_mean_64, output_upsampled, COEFS, dip_input, params,
                   opt_t, out, target_dip, num_iter, j, grads, reprojs, last,
                   image, proj1>>

NextProj == ProjectOnce \/ ProjectTwice

SpecProj == InitProj /\ [][NextProj]_vars

(***************************************************************************)
(* Entry point 3: optimize(lr, num_iter) on a constructed object.          *)
(*   pc: "ready" -> "loop" -> "done"                                       *)
(***************************************************************************)
InitReady ==
    /\ pc = "ready"
    /\ \E in \in RunInputs :
        /\ black_image = in[1]
        /\ luminance_256 = Luminance256(in[1])
        /\ luminance_64 = Luminance64(in[1])
        /\ proba_distrib = in[2]
    /\ COEFS = Palette
    /\ lab_mean_64 = LabMean64(luminance_64, proba_distrib, COEFS)
    /\ output_upsampled = OutputUpsampled(lab_mean_64, luminance_256)
    /\ dip_input \in DipInputs
    /\ params = 0
    /\ opt_t = Unassigned
    /\ target_dip = get_initialized_image
    /\ out = Empty
    /\ NoRun /\ NoProj

\* optimize, up to the loop: the Adam optimizer is created.
OptimizeBegin ==
    /\ pc = "ready"
    /\ pc' = "loop"
    /\ \E n \in NumIters : num_iter' = n
    /\ j' = 0
    /\ opt_t' = 0
    /\ UNCHANGED <<black_image, luminance_256, luminance_64, proba_distrib,
                   lab_mean_64, output_upsampled, COEFS, dip_input, params,
                   out, target_dip, grads, reprojs, last, image, proj1, proj2>>

\* optimizer.zero_grad(); self.closure(j); optimizer.step()
\* closure stores the forward pass of the current parameters in self.out;
\* the step then moves the parameters.
OptimizeGradientAfterStep ==
    /\ pc = "loop"
    /\ InRange(j, num_iter)
    /\ IsGradientIter(j)
    /\ \E p \in Params : params' = p
    /\ out' = DipNet(params', dip_input)
    /\ opt_t' = opt_t + 1
    /\ j' = NextIndex(j)
    /\ grads' = grads + 1
    /\ last' = "gradient"
    /\ UNCHANGED <<pc, black_image, luminance_256, luminance_64,
                   proba_distrib, lab_mean_64, output_upsampled, COEFS,
                   dip_input, target_dip, num_iter, reprojs, image, proj1,
                   proj2>>
OptimizeGradient ==
    /\ pc = "loop"
    /\ InRange(j, num_iter)
    /\ IsGradientIter(j)
    /\ out' = DipNet(params, dip_input)
    /\ \E p \in Params : params' = p
    /\ opt_t' = opt_t + 1
    /\ j' = NextIndex(j)
    /\ grads' = grads + 1
    /\ last' = "gradient"
    /\ UNCHANGED <<pc, black_image, luminance_256, luminance_64,
                   proba_distrib, lab_mean_64, output_upsampled, COEFS,
                   dip_input, target_dip, num_iter, reprojs, image, proj1,
                   proj2>>

\* the else branch: the target is re-anchored on the palette.  Indexing
\* the empty placeholder torch.zeros(0) raises and ends the run.
OptimizeReprojectUpdating ==
    /\ pc = "loop"
    /\ InRange(j, num_iter)
    /\ ~IsGradientIter(j)
    /\ out # Empty
    /\ target_dip' = NewTarget(out)
    /\ out' = DipNet(params, dip_input)
    /\ \E p \in Params : params' = p
    /\ opt_t' = opt_t + 1
    /\ j' = NextIndex(j)
    /\ reprojs' = reprojs \cup {j}
    /\ last' = "reproject"
    /\ UNCHANGED <<pc, black_image, luminance_256, luminance_64,
                   proba_distrib, lab_mean_64, output_upsampled, COEFS,
                   dip_input, num_iter, grads, image, proj1, proj2>>
OptimizeReproject ==
    /\ pc = "loop"
    /\ InRange(j, num_iter)
    /\ ~IsGradientIter(j)
    /\ IF out = Empty
       THEN /\ pc' = "raised"
            /\ UNCHANGED <<target_dip, j, reprojs, last>>
       ELSE /\ target_dip' = NewTarget(out)
            /\ j' = NextIndex(j)
            /\ reprojs' = reprojs \cup {j}
            /\ last' = "reproject"
            /\ pc' = pc
    /\ UNCHANGED <<black_image, luminance_256, luminance_64,
                   proba_distrib, lab_mean_64, output_upsampled, COEFS,
                   dip_input, params, opt_t, out, num_iter, grads, image,
                   proj1, proj2>>

\* range(num_iter) is exhausted.
OptimizeEnd ==
    /\ pc = "loop"
    /\ ~InRange(j, num_iter)
    /\ pc' = "done"
    /\ UNCHANGED <<black_image, luminance_256, luminance_64, proba_distrib,
                   lab_mean_64, output_upsampled, COEFS, dip_input, params,
                   opt_t, out, target_dip, num_iter, j, grads, reprojs, last,
                   image, proj1, proj2>>

Next ==
    \/ OptimizeBegin
    \/ OptimizeGradient
    \/ OptimizeReproject
    \/ OptimizeEnd

Spec == InitReady /\ [][Next]_vars

\* Entry points 2 and 3 together.
SpecProjRun == (InitProj \/ InitReady) /\ [][NextProj \/ Next]_vars

(***************************************************************************)
(* C1.  Every iteration j of optimize is a gradient step when j < 800 or   *)
(* j % 200 # 0 and a re-projection step otherwise: after j iterations the  *)
(* re-projection iterations are exactly the k < j with k >= 800 and        *)
(* k % 200 = 0, all the other iterations are gradient steps, and a run     *)
(* with num_iter = 1000 ends with the single re-projection 800 and 999     *)
(* gradient steps.                                                         *)
(***************************************************************************)
C1_Schedule ==
    pc \in {"loop", "done"} =>
        /\ reprojs = {k \in 800..(j - 1) : k % 200 = 0}
        /\ grads + Cardinality(reprojs) = j
        /\ last = (IF j = 0 THEN "none"
                   ELSE IF j - 1 >= 800 /\ (j - 1) % 200 = 0 THEN "reproject"
                   ELSE "gradient")
        /\ (pc = "done" /\ num_iter = 1000) => (reprojs = {800} /\ grads = 999)

C1_Witness ==
    pc = "done" /\ num_iter = 1000 /\ reprojs = {800} /\ grads = 999

(***************************************************************************)
(* C2 as stated.  With num_iter = 1201 the re-projection iterations are    *)
(* exactly 800 and 1000.                                                   *)
(***************************************************************************)
C2_Original ==
    (pc = "done" /\ num_iter = 1201) => reprojs = {800, 1000}

(***************************************************************************)
(* C2 amended.  With num_iter = 1201 the loop visits 0..1200, so the       *)
(* re-projection iterations are exactly 800, 1000 and 1200; iteration 1200 *)
(* is excluded by the exclusive bound when num_iter = 1200, where the set  *)
(* is exactly {800, 1000}.                                                 *)
(***************************************************************************)
C2_Amended ==
    /\ (pc = "done" /\ num_iter = 1201) => reprojs = {800, 1000, 1200}
    /\ (pc = "done" /\ num_iter = 1200) => reprojs = {800, 1000}

C2_Witness ==
    pc = "done" /\ num_iter = 1201 /\ last = "reproject" /\ 1200 \in reprojs

(***************************************************************************)
(* Vocabulary of the claims about the palette.                             *)
(***************************************************************************)
\* Pixel x of im carries, in channels 1 and 2, entry i of the palette in
\* its normalised form 0.5 * (COEFS + 1).
IsEntry(im, x, i) ==
    /\ im[1][x] = COEFS[i][1] + Half
    /\ im[2][x] = COEFS[i][2] + Half

OnPalette(im) == \A x \in Pix64 : \E i \in Bins : IsEntry(im, x, i)

\* Squared distance, in the normalised space, of pixel x of im to entry k.
SqDist(im, x, k) ==
    (COEFS[k][1] + Half - im[1][x]) * (COEFS[k][1] + Half - im[1][x])
  + (COEFS[k][2] + Half - im[2][x]) * (COEFS[k][2] + Half - im[2][x])

(***************************************************************************)
(* C3.  projection_chrom is idempotent: projecting the result of a         *)
(* projection returns the identical image, in all three channels at every  *)
(* pixel.                                                                  *)
(***************************************************************************)
C3_Idempotent ==
    pc = "proj2" =>
        \A c \in Channels : \A x \in Pix64 : proj2[c][x] = proj1[c][x]

C3_Witness ==
    /\ pc = "proj2"
    /\ proj2 = proj1
    /\ \E x \in Pix64 : image[1][x] # proj1[1][x] /\ image[2][x] # proj1[2][x]
    /\ \E x \in Pix64 : image[0][x] # proj1[0][x]

(***************************************************************************)
(* C4.  Every pixel of the output of projection_chrom carries in channels  *)
(* 1 and 2 one single entry of the palette in its normalised form          *)
(* 0.5 * (COEFS + 1) (both channels from the same index), and so does the  *)
(* fidelity target after every re-projection step.                         *)
(***************************************************************************)
C4_OnPalette ==
    /\ pc \in {"proj1", "proj2"} => OnPalette(proj1)
    /\ pc = "proj2" => OnPalette(proj2)
    /\ last = "reproject" => OnPalette(target_dip)

C4_Witness ==
    /\ last = "reproject"
    /\ OnPalette(target_dip)
    /\ ~OnPalette(downsampler(out))
    /\ \E x \in Pix64, y \in Pix64 :
          target_dip[1][x] # target_dip[1][y] \/ target_dip[2][x] # target_dip[2][y]

(***************************************************************************)
(* C5.  After preprocessing, channel 0 of output_upsampled equals          *)
(* luminance_256 at every pixel (not the upsampling of luminance_64), and  *)
(* channels 1 and 2 are the upsampled chrominance of lab_mean_64.          *)
(***************************************************************************)
C5_LuminanceOverwrite ==
    pc \in {"eccv", "built"} =>
        /\ \A x \in Pix256 : output_upsampled[0][x] = luminance_256[x]
        /\ \A c \in 1..2 : \A x \in Pix256 :
              output_upsampled[c][x] = upsample(lab_mean_64)[c][x]

C5_Witness ==
    /\ pc = "eccv"
    /\ output_upsampled[0] = luminance_256
    /\ \E x \in Pix256 : luminance_256[x] # upsample(lab_mean_64)[0][x]
    /\ \E x \in Pix256 : output_upsampled[1][x] # 0

(***************************************************************************)
(* C6.  In every state of an optimization run (after initialization, after *)
(* any gradient step and after any re-projection step) channel 0 of        *)
(* target_dip equals luminance_64 / 100 at every pixel.                    *)
(***************************************************************************)
C6_TargetLuminance ==
    pc \in {"ready", "loop", "done"} =>
        \A x \in Pix64 : target_dip[0][x] * 100 = luminance_64[x]

C6_Witness ==
    /\ last = "reproject"
    /\ \A x \in Pix64 : target_dip[0][x] * 100 = luminance_64[x]
    /\ \A x \in Pix64 : target_dip[0][x] # downsampler(out)[0][x]

(***************************************************************************)
(* C7.  The initial fidelity target is the mode decode: at every pixel its *)
(* (a,b) pair is the palette entry (normalised form) at the arg-max bin of *)
(* proba_distrib, the lowest such bin when several are maximal, so that a  *)
(* uniform distribution yields entry 0.                                    *)
(***************************************************************************)
C7_ModeDecode ==
    pc = "built" =>
        \A x \in Pix64 :
            /\ \E i \in Bins :
                /\ \A k \in Bins : proba_distrib[k][x] <= proba_distrib[i][x]
                /\ \A k \in Bins : k < i => proba_distrib[k][x] < proba_distrib[i][x]
                /\ IsEntry(target_dip, x, i)
            /\ (\A k \in Bins : proba_distrib[k][x] = proba_distrib[0][x])
                  => IsEntry(target_dip, x, 0)

\* A uniform pixel decoded to entry 0, which is not its mean, next to a
\* pixel whose maximum is shared by two bins other than 0.
C7_Witness ==
    /\ pc = "built"
    /\ \E x \in Pix64 :
        /\ \A k \in Bins : proba_distrib[k][x] = proba_distrib[0][x]
        /\ IsEntry(target_dip, x, 0)
        /\ ProbTotal * target_dip[1][x] #
              SumOver([b \in Bins |-> proba_distrib[b][x] * (COEFS[b][1] + Half)], Bins)
    /\ \E x \in Pix64 : \E i \in Bins, k \in Bins :
        /\ 0 < i /\ i < k
        /\ proba_distrib[i][x] = proba_distrib[k][x]
        /\ \A b \in Bins : proba_distrib[b][x] <= proba_distrib[i][x]
        /\ IsEntry(target_dip, x, i)

(***************************************************************************)
(* C8.  A re-projection iteration changes neither the parameters of the    *)
(* prior network, nor the optimizer state, nor self.out (only target_dip   *)
(* is replaced); a gradient iteration leaves target_dip unchanged; no      *)
(* iteration changes dip_input or COEFS.                                   *)
(***************************************************************************)
C8_Frame ==
    [][ /\ reprojs' # reprojs =>
              params' = params /\ opt_t' = opt_t /\ out' = out
        /\ grads' # grads => target_dip' = target_dip
        /\ pc = "loop" => dip_input' = dip_input /\ COEFS' = COEFS ]_vars

\* After a re-projection that replaced the target, with the optimizer
\* having taken exactly the gradient steps.
C8_Witness ==
    /\ last = "reproject"
    /\ target_dip # get_initialized_image
    /\ out # Empty
    /\ params # 0
    /\ opt_t = grads
    /\ grads = 800

(***************************************************************************)
(* C9.  At every pixel projection_chrom selects a palette entry at minimal *)
(* squared Euclidean distance from the pixel's (a,b) pair in normalised    *)
(* space, and the entry of lowest index among those at minimal distance.   *)
(***************************************************************************)
C9_Nearest ==
    pc \in {"proj1", "proj2"} =>
        \A x \in Pix64 : \E i \in Bins :
            /\ IsEntry(proj1, x, i)
            /\ \A k \in Bins : SqDist(image, x, i) <= SqDist(image, x, k)
            /\ \A k \in Bins : k < i => SqDist(image, x, i) < SqDist(image, x, k)

\* A pixel at the same minimal distance from two entries, given the first.
C9_Witness ==
    /\ pc = "proj1"
    /\ \E x \in Pix64 : \E i \in Bins, k \in Bins :
        /\ i < k
        /\ SqDist(image, x, i) = SqDist(image, x, k)
        /\ \A b \in Bins : SqDist(image, x, i) <= SqDist(image, x, b)
        /\ IsEntry(proj1, x, i)
        /\ SqDist(image, x, i) > 0

(***************************************************************************)
(* C10.  optimize ends after exactly num_iter iterations: every iteration, *)
(* of either kind, advances the index by one from 0, the loop ends when    *)
(* the index reaches num_iter, and once it has ended no step changes the   *)
(* state.                                                                  *)
(***************************************************************************)
C10_Terminates ==
    /\ [](pc = "loop" => j <= num_iter)
    /\ [](pc = "done" => j = num_iter /\ grads + Cardinality(reprojs) = num_iter)
    /\ [][ /\ pc = "ready" => pc' = "loop" /\ j' = 0
           /\ pc = "loop" =>
                 \/ pc' = "loop" /\ j < num_iter /\ j' = j + 1
                                 /\ num_iter' = num_iter
                                 /\ grads' + Cardinality(reprojs') = j'
                 \/ pc' = "done" /\ j = num_iter /\ j' = j
                                 /\ out' = out /\ target_dip' = target_dip
           /\ pc = "done" => UNCHANGED vars ]_vars
    /\ <>(pc = "done")

C10_Witness ==
    /\ pc = "done"
    /\ num_iter = 1201
    /\ j = 1201
    /\ grads = 1198
    /\ Cardinality(reprojs) = 3

\* optimize is a sequential loop that nothing suspends: a step that can be
\* taken is taken.
FairSpec == Spec /\ WF_vars(Next)

(***************************************************************************)
(* C11.  Every re-projection iteration j directly follows the gradient     *)
(* iteration j - 1 (never another re-projection) and comes after at least  *)
(* 800 gradient steps, so the output it projects is not the empty          *)
(* placeholder of the constructor but the forward pass stored by iteration *)
(* j - 1, and a gradient iteration stores the forward pass of the          *)
(* parameters as they are before its optimizer update.                     *)
(***************************************************************************)
C11_ProjectsLastForward ==
    [][ /\ grads' # grads => out' = DipNet(params, dip_input)
        /\ reprojs' # reprojs =>
              /\ last = "gradient"
              /\ j >= 1 /\ (j - 1) \notin reprojs
              /\ grads >= 800
              /\ out # Empty
              /\ out' = out
              /\ \A x \in Pix64 : \E i \in Bins :
                    /\ IsEntry(target_dip', x, i)
                    /\ \A k \in Bins :
                          SqDist(downsampler(out), x, i)
                              <= SqDist(downsampler(out), x, k) ]_vars

\* After a re-projection of an output that is not the forward pass of the
\* parameters as they are now, the update of iteration j - 1 having moved
\* them.
C11_Witness ==
    /\ last = "reproject"
    /\ out # Empty
    /\ out # DipNet(params, dip_input)
    /\ \E p \in Params : p # params /\ out = DipNet(p, dip_input)
    /\ Cardinality(reprojs) = 2

====
